---- MODULE Spec2Model ----
(***************************************************************************)
(* Model of Atoms/instantiation_atoms.py: the Atom value object, its two   *)
(* placeholder helpers, its __repr__, and the module-level script that     *)
(* builds three Atoms and prints them.  After the script has run, a client *)
(* of the module constructs one further Atom from arbitrary arguments and  *)
(* prints it or reads one attribute back.                                  *)
(*                                                                         *)
(* Python values are tagged records.  A str is a sequence of one-character *)
(* strings, a float is an integer number of thousandths (every float       *)
(* literal of the source has at most three decimals), an ndarray is a      *)
(* sequence of such floats.                                                *)
(***************************************************************************)
EXTENDS Integers, Sequences, FiniteSets, TLC

VARIABLES pc, atoms, out, err, call, residues

vars == <<pc, atoms, out, err, call, residues>>

(***************************************************************************)
(* Bounds                                                                  *)
(***************************************************************************)
MaxElementLen == 2

(***************************************************************************)
(* Python values                                                           *)
(***************************************************************************)
None == [t |-> "NoneType"]
Str(s) == [t |-> "str", v |-> s]
Float(n) == [t |-> "float", v |-> n]
Integer(n) == [t |-> "int", v |-> n]
Array(s) == [t |-> "ndarray", v |-> s]
Dict(d) == [t |-> "dict", v |-> d]

\* an attribute the object does not have (yet)
NoAttr == [t |-> "no-attribute"]
\* a keyword argument the caller left out
Absent == [t |-> "omitted"]
\* a module-level name that is not bound
Unbound == [t |-> "unbound"]

RECURSIVE Join(_)
Join(s) == IF s = <<>> THEN "" ELSE Head(s) \o Join(Tail(s))

RECURSIVE JoinWith(_, _)
JoinWith(s, sep) ==
    IF s = <<>> THEN ""
    ELSE IF Len(s) = 1 THEN s[1]
    ELSE s[1] \o sep \o JoinWith(Tail(s), sep)

RECURSIVE Spaces(_)
Spaces(n) == IF n <= 0 THEN "" ELSE " " \o Spaces(n - 1)

Max(S) == CHOOSE m \in S : \A k \in S : k <= m

\* str.upper(), character by character
UpperChar(c) ==
    CASE c = "c" -> "C"
      [] c = "g" -> "G"
      [] c = "h" -> "H"
      [] c = "n" -> "N"
      [] c = "o" -> "O"
      [] OTHER -> c

Upper(e) == Str([i \in 1..Len(e.v) |-> UpperChar(e.v[i])])

\* truth value of an object, as `not element` takes it
Truthy(v) ==
    CASE v.t = "NoneType" -> FALSE
      [] v.t = "str" -> v.v # <<>>
      [] v.t \in {"float", "int"} -> v.v # 0
      [] OTHER -> TRUE

(***************************************************************************)
(* Text conversions used by the f-strings                                  *)
(***************************************************************************)
\* the decimals of a float, m thousandths, without trailing zeros
FracDigits(m) ==
    IF m = 0 THEN ""
    ELSE IF m % 100 = 0 THEN ToString(m \div 100)
    ELSE IF m % 10 = 0
         THEN (IF m < 100 THEN "0" ELSE "") \o ToString(m \div 10)
    ELSE (IF m < 10 THEN "00" ELSE IF m < 100 THEN "0" ELSE "") \o ToString(m)

Abs(n) == IF n < 0 THEN 0 - n ELSE n

IntDigits(n) == (IF n < 0 THEN "-" ELSE "") \o ToString(Abs(n) \div 1000)

\* str(float) / repr(float)
FloatStr(n) ==
    IntDigits(n) \o "." \o
    (IF FracDigits(Abs(n) % 1000) = "" THEN "0" ELSE FracDigits(Abs(n) % 1000))

\* str(ndarray.tolist()): the repr of a list of floats
ListStr(a) == "[" \o JoinWith([i \in 1..Len(a) |-> FloatStr(a[i])], ", ") \o "]"

\* str(ndarray): integer parts right-aligned, decimals left-aligned
NdarrayStr(a) ==
    IF a = <<>> THEN "[]" ELSE
    LET iw == Max({Len(IntDigits(a[i])) : i \in 1..Len(a)})
        fw == Max({Len(FracDigits(Abs(a[i]) % 1000)) : i \in 1..Len(a)})
        cell(n) == Spaces(iw - Len(IntDigits(n))) \o IntDigits(n) \o "." \o
                   FracDigits(Abs(n) % 1000) \o
                   Spaces(fw - Len(FracDigits(Abs(n) % 1000)))
    IN  "[" \o JoinWith([i \in 1..Len(a) |-> cell(a[i])], " ") \o "]"

\* format(value, "") of an attribute value inside an f-string
PyStr(v) ==
    CASE v.t = "NoneType" -> "None"
      [] v.t = "str" -> Join(v.v)
      [] v.t = "float" -> FloatStr(v.v)
      [] v.t = "int" -> ToString(v.v)
      [] v.t = "ndarray" -> NdarrayStr(v.v)

(***************************************************************************)
(* class Atom                                                              *)
(***************************************************************************)
AtomAttrs ==
    {"level", "parent", "name", "fullname", "coord", "bfactor", "occupancy",
     "altloc", "full_id", "id", "disordered_flag", "anisou_array",
     "siguij_array", "sigatm_array", "serial_number", "xtra", "element",
     "mass", "pqr_charge", "radius", "_sorting_keys"}

\* a fresh instance: no attribute is set before __init__ runs
NewObject == [t |-> "Atom", d |-> [k \in AtomAttrs |-> NoAttr]]

SetAttr(self, k, v) == [self EXCEPT !.d[k] = v]

\* the keyword defaults of __init__: element, pqr_charge and radius are None
BindArgs(c) ==
    [c EXCEPT !.element = IF @ = Absent THEN None ELSE @,
              !.pqr_charge = IF @ = Absent THEN None ELSE @,
              !.radius = IF @ = Absent THEN None ELSE @]

\* variant: the constructor links the atom to a residue of its own
InitHeaderLinked(self) ==
    SetAttr(SetAttr(self, "level", Str(<<"A">>)), "parent",
            [t |-> "Residue", name |-> Str(<<"X">>), id |-> Integer(0),
             atoms |-> <<>>])

\* self.level, self.parent
InitHeader(self) ==
    SetAttr(SetAttr(self, "level", Str(<<"A">>)), "parent", None)

\* the atomic data: self.name ... self.xtra
InitData(self, a) ==
    LET s1 == SetAttr(self, "name", a.name)
        s2 == SetAttr(s1, "fullname", a.fullname)
        s3 == SetAttr(s2, "coord", a.coord)
        s4 == SetAttr(s3, "bfactor", a.bfactor)
        s5 == SetAttr(s4, "occupancy", a.occupancy)
        s6 == SetAttr(s5, "altloc", a.altloc)
        s7 == SetAttr(s6, "full_id", None)
        s8 == SetAttr(s7, "id", a.name)
        s9 == SetAttr(s8, "disordered_flag", Integer(0))
        s10 == SetAttr(s9, "anisou_array", None)
        s11 == SetAttr(s10, "siguij_array", None)
        s12 == SetAttr(s11, "sigatm_array", None)
        s13 == SetAttr(s12, "serial_number", a.serial_number)
    IN  SetAttr(s13, "xtra", Dict(<<>>))

\* variant: only the first character is compared with its upper case
AssertElementFirstChar(a) ==
    \/ ~Truthy(a.element)
    \/ a.element.v[1] = UpperChar(a.element.v[1])

\* variant: no `not element` guard, so None has no upper() to call
AssertElementNoGuard(a) ==
    /\ a.element.t = "str"
    /\ a.element = Upper(a.element)

\* variant: the occupancy is range-checked as well
AssertElementAndOccupancy(a) ==
    /\ \/ ~Truthy(a.element)
       \/ a.element = Upper(a.element)
    /\ \/ a.occupancy = None
       \/ (a.occupancy.v >= 0 /\ a.occupancy.v <= 1000)

\* assert not element or element == element.upper(), element
AssertElement(a) ==
    \/ ~Truthy(a.element)
    \/ a.element = Upper(a.element)

\* variant: the element is canonicalised with str.capitalize()
_assign_element_capitalize(self, element) ==
    LET LowerChar(c) ==
            CASE c = "C" -> "c" [] c = "G" -> "g" [] c = "H" -> "h"
              [] c = "N" -> "n" [] c = "O" -> "o" [] OTHER -> c
    IN  IF element.t # "str" THEN element
        ELSE Str([i \in 1..Len(element.v) |->
                    IF i = 1 THEN UpperChar(element.v[i])
                    ELSE LowerChar(element.v[i])])

_assign_element(self, element) == element

MassC == 12011
MassO == 15999
MassN == 14007

\* variant: the nitrogen branch returns the oxygen mass
_assign_atom_mass_copied_branch(self) ==
    IF self.d.element = Str(<<"C">>) THEN Float(MassC)
    ELSE IF self.d.element = Str(<<"O">>) THEN Float(MassO)
    ELSE IF self.d.element = Str(<<"N">>) THEN Float(MassO)
    ELSE None

_assign_atom_mass(self) ==
    IF self.d.element = Str(<<"C">>) THEN Float(MassC)
    ELSE IF self.d.element = Str(<<"O">>) THEN Float(MassO)
    ELSE IF self.d.element = Str(<<"N">>) THEN Float(MassN)
    ELSE None

\* self.element, then self.mass
InitElement(self, a) ==
    LET s1 == SetAttr(self, "element", _assign_element(self, a.element))
    IN  SetAttr(s1, "mass", _assign_atom_mass(s1))

\* variant: charge and radius are stored in each other's attribute
InitPqrSwapped(self, a) ==
    SetAttr(SetAttr(self, "pqr_charge", a.radius), "radius", a.pqr_charge)

\* self.pqr_charge, self.radius
InitPqr(self, a) ==
    SetAttr(SetAttr(self, "pqr_charge", a.pqr_charge), "radius", a.radius)

SortingKeys == Dict([k \in {"N", "CA", "C", "O"} |->
                        CASE k = "N" -> 0 [] k = "CA" -> 1
                          [] k = "C" -> 2 [] k = "O" -> 3])

\* Atom(...): the new object, or the exception that __init__ raises
AtomInit(c) ==
    LET a == BindArgs(c)
        s1 == InitData(InitHeader(NewObject), a)
    IN  IF ~AssertElement(a)
        THEN [raised |-> "AssertionError", obj |-> Unbound]
        ELSE [raised |-> "none",
              obj |-> SetAttr(InitPqr(InitElement(s1, a), a),
                              "_sorting_keys", SortingKeys)]

\* variant: the radius is left out of the display
ReprItemsNoRadius(self) ==
    << [field |-> "name", text |-> "name='" \o PyStr(self.d.name) \o "'"],
       [field |-> "coord", text |-> "coord=" \o ListStr(self.d.coord.v)],
       [field |-> "bfactor", text |-> "bfactor=" \o PyStr(self.d.bfactor)],
       [field |-> "occupancy", text |-> "occupancy=" \o PyStr(self.d.occupancy)],
       [field |-> "altloc", text |-> "altloc='" \o PyStr(self.d.altloc) \o "'"],
       [field |-> "serial_number",
        text |-> "serial_number=" \o PyStr(self.d.serial_number)],
       [field |-> "element", text |-> "element='" \o PyStr(self.d.element) \o "'"],
       [field |-> "pqr_charge", text |-> "pqr_charge=" \o PyStr(self.d.pqr_charge)] >>

\* the fields that __repr__ formats, in order, each with its text
ReprItems(self) ==
    << [field |-> "name", text |-> "name='" \o PyStr(self.d.name) \o "'"],
       [field |-> "coord", text |-> "coord=" \o ListStr(self.d.coord.v)],
       [field |-> "bfactor", text |-> "bfactor=" \o PyStr(self.d.bfactor)],
       [field |-> "occupancy", text |-> "occupancy=" \o PyStr(self.d.occupancy)],
       [field |-> "altloc", text |-> "altloc='" \o PyStr(self.d.altloc) \o "'"],
       [field |-> "serial_number",
        text |-> "serial_number=" \o PyStr(self.d.serial_number)],
       [field |-> "element", text |-> "element='" \o PyStr(self.d.element) \o "'"],
       [field |-> "pqr_charge", text |-> "pqr_charge=" \o PyStr(self.d.pqr_charge)],
       [field |-> "radius", text |-> "radius=" \o PyStr(self.d.radius)] >>

__repr__(self) ==
    "Atom(" \o
    JoinWith([i \in 1..Len(ReprItems(self)) |-> ReprItems(self)[i].text], ", ")
    \o ")"

(***************************************************************************)
(* Statements of the module-level script                                   *)
(***************************************************************************)
New(target, c) == [op |-> "new", target |-> target, call |-> c]
\* print(...); nl: the text starts with "\n"
PrintStmt(nl, parts) == [op |-> "print", nl |-> nl, parts |-> parts]
Lit(s) == [p |-> "lit", s |-> s]
Attr(var, attr) == [p |-> "attr", var |-> var, attr |-> attr]
Obj(var) == [p |-> "obj", var |-> var]

Chars_CA == <<"C", "A">>
Chars_O == <<"O">>
Chars_H1 == <<"H", "1">>

\* variant: the first example passes a lower-case element
CaCallLowerCase ==
    [name |-> Str(Chars_CA), coord |-> Array(<<15234, 12567, 8901>>),
     bfactor |-> Float(35700), occupancy |-> Float(1000),
     altloc |-> Str(<<" ">>), fullname |-> Str(<<" ", "C", "A", " ">>),
     serial_number |-> Integer(25), element |-> Str(<<"c">>),
     pqr_charge |-> None, radius |-> None]

CaCall ==
    [name |-> Str(Chars_CA), coord |-> Array(<<15234, 12567, 8901>>),
     bfactor |-> Float(35700), occupancy |-> Float(1000),
     altloc |-> Str(<<" ">>), fullname |-> Str(<<" ", "C", "A", " ">>),
     serial_number |-> Integer(25), element |-> Str(<<"C">>),
     pqr_charge |-> None, radius |-> None]

OCall ==
    [name |-> Str(Chars_O), coord |-> Array(<<16123, 11987, 9543>>),
     bfactor |-> Float(45100), occupancy |-> Float(500),
     altloc |-> Str(<<"B">>), fullname |-> Str(<<" ", "O", " ", " ">>),
     serial_number |-> Integer(26), element |-> Str(<<"O">>),
     pqr_charge |-> Absent, radius |-> Absent]

HCall ==
    [name |-> Str(Chars_H1), coord |-> Array(<<10000, 10000, 10000>>),
     bfactor |-> None, occupancy |-> None,
     altloc |-> Str(<<" ">>), fullname |-> Str(<<" ", "H", "1", " ">>),
     serial_number |-> Integer(1), element |-> Str(<<"H">>),
     pqr_charge |-> Float(250), radius |-> Float(1200)]

Program ==
    << New("ca_atom_instance", CaCall),
       PrintStmt(FALSE, <<Lit("Successfully instantiated an Atom object:")>>),
       PrintStmt(FALSE, <<Obj("ca_atom_instance")>>),
       PrintStmt(TRUE, <<Lit("Atom Name: "), Attr("ca_atom_instance", "name")>>),
       PrintStmt(FALSE, <<Lit("Atom Full Name: '"),
                      Attr("ca_atom_instance", "fullname"), Lit("'")>>),
       PrintStmt(FALSE, <<Lit("Coordinates: "), Attr("ca_atom_instance", "coord")>>),
       PrintStmt(FALSE, <<Lit("B-factor: "), Attr("ca_atom_instance", "bfactor")>>),
       PrintStmt(FALSE, <<Lit("Occupancy: "),
                      Attr("ca_atom_instance", "occupancy")>>),
       PrintStmt(FALSE, <<Lit("Alternative Location: '"),
                      Attr("ca_atom_instance", "altloc"), Lit("'")>>),
       PrintStmt(FALSE, <<Lit("Serial Number: "),
                      Attr("ca_atom_instance", "serial_number")>>),
       PrintStmt(FALSE, <<Lit("Element: "), Attr("ca_atom_instance", "element")>>),
       PrintStmt(FALSE, <<Lit("Mass: "), Attr("ca_atom_instance", "mass")>>),
       PrintStmt(FALSE, <<Lit("PQR Charge: "),
                      Attr("ca_atom_instance", "pqr_charge")>>),
       PrintStmt(FALSE, <<Lit("Radius: "), Attr("ca_atom_instance", "radius")>>),
       New("o_atom_altB", OCall),
       PrintStmt(TRUE, <<Lit("Successfully instantiated another Atom object (with alternative location):")>>),
       PrintStmt(FALSE, <<Obj("o_atom_altB")>>),
       PrintStmt(FALSE, <<Lit("Atom Name: "), Attr("o_atom_altB", "name")>>),
       PrintStmt(FALSE, <<Lit("Alternative Location: '"),
                      Attr("o_atom_altB", "altloc"), Lit("'")>>),
       PrintStmt(FALSE, <<Lit("Occupancy: "), Attr("o_atom_altB", "occupancy")>>),
       PrintStmt(FALSE, <<Lit("Mass: "), Attr("o_atom_altB", "mass")>>),
       New("h_atom_pqr", HCall),
       PrintStmt(TRUE, <<Lit("Successfully instantiated an Atom object (PQR style):")>>),
       PrintStmt(FALSE, <<Obj("h_atom_pqr")>>),
       PrintStmt(FALSE, <<Lit("PQR Charge: "), Attr("h_atom_pqr", "pqr_charge")>>),
       PrintStmt(FALSE, <<Lit("Radius: "), Attr("h_atom_pqr", "radius")>>) >>

\* the module-level names of the script, and the client's own name
Names == {"ca_atom_instance", "o_atom_altB", "h_atom_pqr", "probe"}

\* position after the last statement of the script
Done == Len(Program) + 1

(***************************************************************************)
(* Executing a statement                                                   *)
(***************************************************************************)
\* variant: serial_number is kept on the class, shared by all instances
BindSharedSerial(env, target, obj) ==
    [v \in DOMAIN env |->
        IF v = target THEN obj
        ELSE IF env[v] = Unbound THEN Unbound
        ELSE SetAttr(env[v], "serial_number", obj.d.serial_number)]

\* binding a name to a new object leaves every other name alone
Bind(env, target, obj) == [env EXCEPT ![target] = obj]

\* the names a print statement reads
Reads(parts) ==
    {parts[i].var : i \in {j \in 1..Len(parts) : parts[j].p # "lit"}}

PartText(part, env) ==
    CASE part.p = "lit" -> part.s
      [] part.p = "attr" -> PyStr(env[part.var].d[part.attr])
      [] part.p = "obj" -> __repr__(env[part.var])

PartShows(part, env) ==
    CASE part.p = "lit" -> {}
      [] part.p = "attr" -> {part.attr}
      [] part.p = "obj" ->
            {ReprItems(env[part.var])[i].field :
                i \in 1..Len(ReprItems(env[part.var]))}

BlankLine == [text |-> "", kind |-> "blank", var |-> "", shows |-> {}]

\* the line a print statement writes: its text, and which attributes of
\* which object the text was formatted from
Line(parts, env) ==
    [text |-> Join([i \in 1..Len(parts) |-> PartText(parts[i], env)]),
     kind |-> IF \E i \in 1..Len(parts) : parts[i].p = "obj" THEN "repr"
              ELSE IF \E i \in 1..Len(parts) : parts[i].p = "attr" THEN "field"
              ELSE "literal",
     var |-> IF Reads(parts) = {} THEN "" ELSE CHOOSE v \in Reads(parts) : TRUE,
     shows |-> UNION {PartShows(parts[i], env) : i \in 1..Len(parts)}]

\* a name that is read before it is bound raises NameError
ExecPrint(st) ==
    IF \E v \in Reads(st.parts) : atoms[v] = Unbound
    THEN /\ err' = "NameError"
         /\ UNCHANGED <<pc, out>>
    ELSE /\ out' = out \o (IF st.nl THEN <<BlankLine>> ELSE <<>>)
                       \o <<Line(st.parts, atoms)>>
         /\ pc' = pc + 1
         /\ err' = err

ExecNew(st) ==
    LET r == AtomInit(st.call)
    IN  IF r.raised # "none"
        THEN /\ err' = r.raised
             /\ UNCHANGED <<pc, atoms>>
        ELSE /\ atoms' = Bind(atoms, st.target, r.obj)
             /\ pc' = pc + 1
             /\ err' = err

(***************************************************************************)
(* The script                                                              *)
(***************************************************************************)
NoCall == [t |-> "no-call"]

Init ==
    /\ pc = 1
    /\ atoms = [v \in Names |-> Unbound]
    /\ out = <<>>
    /\ err = "none"
    /\ call = NoCall
    /\ residues = {}

DriverNew ==
    /\ err = "none"
    /\ pc < Done
    /\ Program[pc].op = "new"
    /\ ExecNew(Program[pc])
    /\ UNCHANGED <<out, call, residues>>

DriverPrint ==
    /\ err = "none"
    /\ pc < Done
    /\ Program[pc].op = "print"
    /\ ExecPrint(Program[pc])
    /\ UNCHANGED <<atoms, call, residues>>

(***************************************************************************)
(* A client of the class, once the script has run                          *)
(***************************************************************************)
ElementChars == {"C", "N", "O", "H", "G", "c", "g", "1"}

RECURSIVE SeqsUpTo(_, _)
SeqsUpTo(S, n) ==
    IF n = 0 THEN {<<>>}
    ELSE SeqsUpTo(S, n - 1) \cup
         {Append(s, c) : s \in {q \in SeqsUpTo(S, n - 1) : Len(q) = n - 1},
                         c \in S}

Elements ==
    {Absent, None} \cup {Str(s) : s \in SeqsUpTo(ElementChars, MaxElementLen)}

Calls ==
    [name : {Str(Chars_CA), Str(<<" ", "c", "a">>)},
     coord : {Array(<<10000, 0 - 1500, 250>>), Array(<<>>)},
     bfactor : {None, Float(35700)},
     occupancy : {None, Float(1500)},
     altloc : {Str(<<"B">>)},
     fullname : {Str(<<" ", "C", "A", " ">>)},
     serial_number : {Integer(0 - 7)},
     element : Elements,
     pqr_charge : {Absent, Float(250)},
     radius : {Absent, Float(0 - 1200)}]

ReadAttrs ==
    {"name", "fullname", "coord", "bfactor", "occupancy", "altloc",
     "serial_number", "element", "mass", "pqr_charge", "radius", "parent"}

\* probe = Atom(...)
ClientNew ==
    /\ err = "none"
    /\ pc = Done
    /\ \E c \in Calls :
          /\ call' = c
          /\ ExecNew(New("probe", c))
    /\ UNCHANGED <<out, residues>>

\* print(probe)
ClientPrint ==
    /\ err = "none"
    /\ pc = Done + 1
    /\ ExecPrint(PrintStmt(FALSE, <<Obj("probe")>>))
    /\ UNCHANGED <<atoms, call, residues>>

\* print(probe.<attr>)
ClientRead(attr) ==
    /\ err = "none"
    /\ pc = Done + 1
    /\ ExecPrint(PrintStmt(FALSE, <<Attr("probe", attr)>>))
    /\ UNCHANGED <<atoms, call, residues>>

Next ==
    \/ DriverNew
    \/ DriverPrint
    \/ ClientNew
    \/ ClientPrint
    \/ \E attr \in ReadAttrs : ClientRead(attr)

Spec == Init /\ [][Next]_vars

\* the text after the last statement of the source: the recorded output
Transcript ==
    << "Successfully instantiated an Atom object:",
       "Atom(name='CA', coord=[15.234, 12.567, 8.901], bfactor=35.7, occupancy=1.0, altloc=' ', serial_number=25, element='C', pqr_charge=None, radius=None)",
       "",
       "Atom Name: CA",
       "Atom Full Name: ' CA '",
       "Coordinates: [15.234 12.567  8.901]",
       "B-factor: 35.7",
       "Occupancy: 1.0",
       "Alternative Location: ' '",
       "Serial Number: 25",
       "Element: C",
       "Mass: 12.011",
       "PQR Charge: None",
       "Radius: None",
       "",
       "Successfully instantiated another Atom object (with alternative location):",
       "Atom(name='O', coord=[16.123, 11.987, 9.543], bfactor=45.1, occupancy=0.5, altloc='B', serial_number=26, element='O', pqr_charge=None, radius=None)",
       "Atom Name: O",
       "Alternative Location: 'B'",
       "Occupancy: 0.5",
       "Mass: 15.999",
       "",
       "Successfully instantiated an Atom object (PQR style):",
       "Atom(name='H1', coord=[10.0, 10.0, 10.0], bfactor=None, occupancy=None, altloc=' ', serial_number=1, element='H', pqr_charge=0.25, radius=1.2)",
       "PQR Charge: 0.25",
       "Radius: 1.2" >>

TypeOK ==
    /\ pc \in 1..(Done + 2)
    /\ err \in {"none", "AssertionError", "NameError"}
    /\ call = NoCall \/ call.element \in Elements
    /\ \A v \in Names : atoms[v] = Unbound \/ atoms[v].t = "Atom"

\* the script's output is the recorded output, line for line
OutputMatchesTranscript ==
    pc >= Done =>
        /\ Len(out) >= Len(Transcript)
        /\ \A i \in 1..Len(Transcript) : out[i].text = Transcript[i]

(***************************************************************************)
(* Properties                                                              *)
(***************************************************************************)
Bound == {v \in Names : atoms[v] # Unbound}

\* the constructor call that bound a name
CallOf(v) ==
    CASE v = "ca_atom_instance" -> CaCall
      [] v = "o_atom_altB" -> OCall
      [] v = "h_atom_pqr" -> HCall
      [] v = "probe" -> call

\* an argument as __init__ receives it: None when the caller left it out
Passed(x) == IF x = Absent THEN None ELSE x

LowerCaseLetters == {"c", "g", "h", "n", "o"}

AllFields ==
    {"name", "fullname", "coord", "bfactor", "occupancy", "altloc",
     "serial_number", "element", "mass", "pqr_charge", "radius"}

ReprFields ==
    {"name", "coord", "bfactor", "occupancy", "altloc", "serial_number",
     "element", "pqr_charge", "radius"}

\* C1: the mass of every constructed Atom is fixed by its element: 12.011
\* for "C", 15.999 for "O", 14.007 for "N", and None for anything else
\* ("H", "HG", the empty string, None).
C1_MassByElement ==
    \A v \in Bound :
        LET e == atoms[v].d.element
            m == atoms[v].d.mass
        IN  /\ e = Str(<<"C">>) => m = Float(12011)
            /\ e = Str(<<"O">>) => m = Float(15999)
            /\ e = Str(<<"N">>) => m = Float(14007)
            /\ e \notin {Str(<<"C">>), Str(<<"O">>), Str(<<"N">>)} => m = None

C1_Witness ==
    /\ atoms["probe"] # Unbound
    /\ atoms["probe"].d.element = Str(<<"N">>)
    /\ atoms["probe"].d.mass = Float(14007)
    /\ atoms["h_atom_pqr"].d.mass = None

\* C2: a call whose element is a string with a lower-case letter in it
\* raises AssertionError and binds no Atom, whatever the other arguments.
C2_LowerCaseRejected ==
    (/\ call # NoCall
     /\ call.element.t = "str"
     /\ \E i \in 1..Len(call.element.v) : call.element.v[i] \in LowerCaseLetters)
    => (atoms["probe"] = Unbound /\ err = "AssertionError")

C2_Witness ==
    /\ call # NoCall
    /\ call.element = Str(<<"H", "g">>)
    /\ err = "AssertionError"
    /\ atoms["probe"] = Unbound

\* C3: a call with element None, or with no element argument, succeeds and
\* the Atom has element None and mass None.
C3_NoElement ==
    (call # NoCall /\ call.element \in {None, Absent})
    => /\ err = "none"
       /\ atoms["probe"] # Unbound
       /\ atoms["probe"].d.element = None
       /\ atoms["probe"].d.mass = None

C3_Witness ==
    /\ call # NoCall
    /\ call.element = Absent
    /\ atoms["probe"] # Unbound
    /\ atoms["probe"].d.mass = None

\* C4: name, coord, bfactor, occupancy, altloc, fullname, serial_number,
\* pqr_charge and radius of every constructed Atom are the values that were
\* passed to its constructor.
C4_FieldsStored ==
    \A v \in Bound :
        LET c == CallOf(v)
            d == atoms[v].d
        IN  /\ d.name = c.name
            /\ d.coord = c.coord
            /\ d.bfactor = c.bfactor
            /\ d.occupancy = c.occupancy
            /\ d.altloc = c.altloc
            /\ d.fullname = c.fullname
            /\ d.serial_number = c.serial_number
            /\ d.pqr_charge = Passed(c.pqr_charge)
            /\ d.radius = Passed(c.radius)

C4_Witness ==
    /\ atoms["probe"] # Unbound
    /\ call.name = Str(<<" ", "c", "a">>)
    /\ call.pqr_charge = Float(250)
    /\ call.radius = Absent
    /\ atoms["probe"].d.name = Str(<<" ", "c", "a">>)

\* C5: in every state the parent of every constructed Atom is None, and no
\* Residue exists.
C5_ParentUnset ==
    /\ residues = {}
    /\ \A v \in Bound : atoms[v].d.parent = None

C5_Witness ==
    /\ Bound = Names
    /\ pc = Done + 2
    /\ out[Len(out)].shows = {"parent"}
    /\ out[Len(out)].text = "None"

\* C6: a call whose element is None, left out, or equal to its own upper
\* case succeeds, whatever the other arguments are.
C6_OnlyElementChecked ==
    (/\ call # NoCall
     /\ \/ call.element \in {None, Absent}
        \/ call.element = Upper(call.element))
    => (err = "none" /\ atoms["probe"] # Unbound)

C6_Witness ==
    /\ call # NoCall
    /\ call.element = Str(<<"1">>)
    /\ call.bfactor = Float(35700)
    /\ call.occupancy = Float(1500)
    /\ call.pqr_charge = Float(250)
    /\ call.radius = Float(0 - 1200)
    /\ call.coord = Array(<<>>)
    /\ atoms["probe"] # Unbound

\* C7: the stored element of every constructed Atom is the element argument
\* itself, and the stored mass is the mass looked up from the stored element.
C7_ElementUnchanged ==
    \A v \in Bound :
        /\ atoms[v].d.element = Passed(CallOf(v).element)
        /\ atoms[v].d.mass = _assign_atom_mass(atoms[v])

C7_Witness ==
    /\ atoms["probe"] # Unbound
    /\ call.element = Str(<<"H", "G">>)
    /\ atoms["probe"].d.element = Str(<<"H", "G">>)

\* C8 as stated: every displayed Atom line shows all eleven attributes of
\* the data model, the full name and the mass included.
C8_ReprShowsAllFields ==
    \A i \in 1..Len(out) : out[i].kind = "repr" => AllFields \subseteq out[i].shows

\* C8: every displayed Atom line shows exactly name, coord, bfactor,
\* occupancy, altloc, serial_number, element, pqr_charge and radius; the
\* full name and the mass are not displayed.
C8_ReprShowsNineFields ==
    \A i \in 1..Len(out) : out[i].kind = "repr" => out[i].shows = ReprFields

C8_Witness ==
    /\ pc = Done + 2
    /\ out[Len(out)].kind = "repr"
    /\ out[Len(out)].var = "probe"
    /\ atoms["probe"].d.mass = Float(12011)

\* C9: no step changes an Atom that has been constructed.
C9_NeverMutated ==
    [][\A v \in Names : atoms[v] # Unbound => atoms'[v] = atoms[v]]_vars

C9_Witness ==
    /\ Bound = Names
    /\ pc = Done + 2
    /\ out[Len(out)].kind = "field"
    /\ out[Len(out)].shows = {"serial_number"}

BlockVar == <<"ca_atom_instance", "o_atom_altB", "h_atom_pqr">>

BlockName == <<Str(<<"C", "A">>), Str(<<"O">>), Str(<<"H", "1">>)>>

\* the lines the script wrote (the client's are about probe)
ScriptLines == {i \in 1..Len(out) : out[i].var # "probe"}

\* a block starts at a "Successfully instantiated ..." line
Headers == {i \in ScriptLines : out[i].kind = "literal"}

\* the block each line belongs to: the number of headers up to it
Blocks ==
    LET h == Headers
    IN  [i \in 1..Len(out) |-> Cardinality({j \in h : j <= i})]

\* the attributes that block k describes, b being Blocks
BlockShows(b, k) ==
    LET lines == ScriptLines
    IN  UNION {out[i].shows : i \in {j \in lines : b[j] = k}}

\* the script raises nothing, can always take its next step, writes about
\* an Atom only once it is constructed, and ends with three blocks, one per
\* Atom, in the order CA, O, H1
DriverRuns ==
    \A b \in {Blocks} : \A lines \in {ScriptLines} : \A bound \in {Bound} :
        /\ err # "none" => (pc = Done /\ call # NoCall)
        /\ pc < Done => ENABLED (DriverNew \/ DriverPrint)
        /\ \A i \in lines :
              /\ out[i].var # "" => out[i].var \in bound
              /\ out[i].kind # "blank" =>
                    /\ b[i] \in 1..3
                    /\ BlockVar[b[i]] \in bound
                    /\ out[i].var \in {"", BlockVar[b[i]]}
        /\ pc >= Done =>
              /\ Cardinality(Headers) = 3
              /\ \A k \in 1..3 :
                    /\ atoms[BlockVar[k]].d.name = BlockName[k]
                    /\ \E i \in lines :
                          /\ b[i] = k
                          /\ out[i].kind = "repr"
                          /\ out[i].var = BlockVar[k]

\* C10 as stated: the script runs to the end and each of its three blocks
\* describes all eleven attributes of its Atom.
C10_EachBlockAllFields ==
    /\ DriverRuns
    /\ pc >= Done => \A k \in 1..3 : BlockShows(Blocks, k) = AllFields

\* C10: the script runs to the end; the CA block describes all eleven
\* attributes, the O block all but the full name, the H1 block all but the
\* full name and the mass.
C10_DriverBlocks ==
    /\ DriverRuns
    /\ pc >= Done =>
          \A b \in {Blocks} :
              /\ BlockShows(b, 1) = AllFields
              /\ BlockShows(b, 2) = AllFields \ {"fullname"}
              /\ BlockShows(b, 3) = AllFields \ {"fullname", "mass"}

C10_Witness ==
    /\ pc = Done
    /\ err = "none"
    /\ call = NoCall
    /\ Len(out) = Len(Transcript)
    /\ out[Len(out)].text = "Radius: 1.2"

====
